---- MODULE Spec2Model ----
(***************************************************************************)
(* Model of whale_4h_screener.py: the 4H volume/trend screener with its    *)
(* persisted alert throttle (daily cap + per-instrument cooldown).         *)
(*                                                                         *)
(* Time is the UTC clock in whole hours since the epoch of the model.      *)
(* Ratios and percentages are kept in tenths (2.0x -> 20, 1.6x -> 16).     *)
(***************************************************************************)
EXTENDS Integers, Sequences, FiniteSets, TLC

VARIABLES
    file,       \* content of STATE_PATH on disk
    now,        \* the UTC clock, in hours
    run,        \* per invocation of main(): its locals and program position
    outbox,     \* what the notification collaborator has been handed, per date
    alertLog    \* per instrument: the last signal notification that listed it

vars == <<file, now, run, outbox, alertLog>>

----------------------------------------------------------------------------
(* Configuration (the AYARLAR block) *)

DAILY_ALERT_LIMIT == 3
COOLDOWN_HOURS == 18
EMA_SLOW == 50
VOL_BASELINE == 24
VOL_SPIKE_LOOKBACK == 3
HistoryMargin == 5
CANDLE_LIMIT == 120
VOL_RATIO_MIN == 20
LAST_CANDLE_RATIO_MIN == 16
MIN_4H_RETURN_PCT == 10
TopK == 7
MAX_SYMBOLS == 150
HoursPerDay == 24

(* Bounds of the model *)
MaxTime == 24
MaxResults == 8
MaxHead == 3
MaxPad == 151

\* the clock is read at a quarter-day resolution
TickHours == HoursPerDay \div 4

Instruments == {"A", "B"}
RunIds == {1, 2}
Dates == 0 .. (MaxTime \div HoursPerDay)

----------------------------------------------------------------------------
(* Dates and timestamps *)

\* utc_now().strftime("%Y-%m-%d"): the calendar day of a clock value
DateOf(t) == t \div HoursPerDay

\* the "" date of the default state
NoDate == -1

\* datetime.isoformat() of an aware UTC datetime: date, time of day, offset
IsoFormat(t) == [d |-> t \div HoursPerDay, h |-> t % HoursPerDay, z |-> "+00:00"]

\* str.replace on the offset suffix of a timestamp string
ReplaceSuffix(s, from, to) == IF s.z = from THEN [s EXCEPT !.z = to] ELSE s

\* dict.get() of a key that is absent
None == [d |-> 0, h |-> 0, z |-> "None"]

\* a cooldown value that datetime.fromisoformat() rejects
Malformed == [d |-> 0, h |-> 0, z |-> "garbage"]

\* datetime.fromisoformat(): raises unless the string carries a UTC offset
\* it understands ("Z" is not one of them, hence the replace at the call)
IsoParses(s) == s.z = "+00:00"
FromIso(s) == s.d * HoursPerDay + s.h

\* variant: the expiry is stamped without the cooldown duration
CooldownStamp_NoDelta(t) ==
    ReplaceSuffix(IsoFormat(t), "+00:00", "Z")

\* the value written at line 275
CooldownStamp(t) ==
    ReplaceSuffix(IsoFormat(t + COOLDOWN_HOURS), "+00:00", "Z")

----------------------------------------------------------------------------
(* The persisted state *)

EmptyMap == [i \in {} |-> None]

DefaultState == [date |-> NoDate, sent |-> 0, cooldown |-> EmptyMap]

Absent == [kind |-> "absent", date |-> NoDate, sent |-> 0, cooldown |-> EmptyMap]
Corrupt == [kind |-> "corrupt", date |-> NoDate, sent |-> 0, cooldown |-> EmptyMap]

\* a file whose content parses as JSON but is no state object (a list, null)
Misshapen == [kind |-> "other", date |-> NoDate, sent |-> 0, cooldown |-> EmptyMap]

\* what load_state() hands back for a Misshapen file: not a dict
NotAState == [date |-> NoDate, sent |-> -2, cooldown |-> EmptyMap]

\* load_state() left by an exception
LoadError == [date |-> NoDate, sent |-> -1, cooldown |-> EmptyMap]

Json(st) ==
    [kind |-> "json", date |-> st.date, sent |-> st.sent, cooldown |-> st.cooldown]

\* variant: the parse error is not caught
load_state_NoFallback(f) ==
    IF f.kind = "json"
    THEN [date |-> f.date, sent |-> f.sent, cooldown |-> f.cooldown]
    ELSE IF f.kind = "other" THEN NotAState
    ELSE IF f.kind = "corrupt" THEN LoadError
    ELSE DefaultState

\* load_state(): the default state when the file is missing or unparseable
load_state(f) ==
    IF f.kind = "json"
    THEN [date |-> f.date, sent |-> f.sent, cooldown |-> f.cooldown]
    ELSE IF f.kind = "other" THEN NotAState
    ELSE DefaultState

\* state["cooldown"].get(instId)
CdGet(m, i) == IF i \in DOMAIN m THEN m[i] ELSE None

\* state["cooldown"][instId] = v
CdPut(m, i, v) == [j \in (DOMAIN m) \cup {i} |-> IF j = i THEN v ELSE m[j]]

----------------------------------------------------------------------------
(* The throttle's decisions *)

\* variant: the rollover forgets to reset the counter
RolloverState_KeepsSent(st, today) ==
    IF st.date # today
    THEN [date |-> today, sent |-> st.sent, cooldown |-> EmptyMap]
    ELSE st

\* lines 210-213: a state of another day is reset before it is used
RolloverState(st, today) ==
    IF st.date # today
    THEN [date |-> today, sent |-> 0, cooldown |-> EmptyMap]
    ELSE st

\* variant: the admission check is off by one
LimitReached_Above(st) == st.sent > DAILY_ALERT_LIMIT

\* line 215: the daily budget is used up
LimitReached(st) == st.sent >= DAILY_ALERT_LIMIT

\* variant: the cooldown is never honoured
CooldownActive_Never(cd, t) == FALSE

\* variant: the comparison with the expiry is the wrong way round
CooldownActive_Inverted(cd, t) ==
    /\ cd # None
    /\ IsoParses(ReplaceSuffix(cd, "Z", "+00:00"))
    /\ t > FromIso(ReplaceSuffix(cd, "Z", "+00:00"))

\* variant: a value that does not parse keeps the instrument out
CooldownActive_FailClosed(cd, t) ==
    /\ cd # None
    /\ \/ ~IsoParses(ReplaceSuffix(cd, "Z", "+00:00"))
       \/ t < FromIso(ReplaceSuffix(cd, "Z", "+00:00"))

\* lines 224-231: the instrument is skipped; a value that does not parse
\* raises inside the try and falls through to the analysis
CooldownActive(cd, t) ==
    /\ cd # None
    /\ IsoParses(ReplaceSuffix(cd, "Z", "+00:00"))
    /\ t < FromIso(ReplaceSuffix(cd, "Z", "+00:00"))

\* variant: the counter is not advanced
SentAfter_Forgotten(r) == r.state.sent

\* variant: the counter advances once per reported instrument
SentAfter_PerInstrument(r) == r.state.sent + Len(r.top)

\* line 277, for the run with locals r
SentAfter(r) == r.state.sent + 1

----------------------------------------------------------------------------
(* Market data and the analysis of one instrument *)

MinHistory == EMA_SLOW + VOL_BASELINE + VOL_SPIKE_LOOKBACK + HistoryMargin

Feed(c, len, base, trend, ret, vol, last, t, buy, sell) ==
    [candles |-> c, len |-> len, base_avg |-> base, trend_up |-> trend,
     ret |-> ret, vol_ratio |-> vol, last_ratio |-> last,
     trades |-> t, whale_buy |-> buy, whale_sell |-> sell]

\* variant: the trend gate accepts equality
TrendUp_NonStrict(close, fast, slow) == close >= fast /\ fast >= slow

\* line 165: close > ema_fast > ema_slow
TrendUp(close, fast, slow) == close > fast /\ fast > slow

\* what the exchange may answer for one instrument: the candle request
\* fails, or the candles give these features; the trade request likewise
Markets ==
    { Feed("error", 0, 0, FALSE, 0, 0, 0, "ok", 0, 0),
      Feed("ok", MinHistory - 1, 100, TRUE, 20, 30, 20, "ok", 5, 0),
      Feed("ok", CANDLE_LIMIT, 100, TRUE, 5, 30, 20, "ok", 5, 0),
      Feed("ok", CANDLE_LIMIT, 100, TRUE, 20, 30, 20, "ok", 5, 0),
      Feed("ok", CANDLE_LIMIT, 100, TRUE, 50, 25, 20, "ok", 0, 0),
      Feed("ok", CANDLE_LIMIT, 100, TRUE, 20, 30, 20, "error", 5, 0) }

NoResult ==
    [instId |-> "", ret |-> 0, vol_ratio |-> 0, last_ratio |-> 0,
     whale_buy |-> 0, whale_sell |-> 0]

\* variant: the history length is not checked
PassesGates_AnyHistory(m) ==
    /\ ~(m.base_avg <= 0)
    /\ m.trend_up
    /\ ~(m.ret < MIN_4H_RETURN_PCT)
    /\ ~(m.vol_ratio < VOL_RATIO_MIN)
    /\ ~(m.last_ratio < LAST_CANDLE_RATIO_MIN)

\* lines 155-186: history length, baseline and the four gates
PassesGates(m) ==
    /\ ~(m.len < MinHistory)
    /\ ~(m.base_avg <= 0)
    /\ m.trend_up
    /\ ~(m.ret < MIN_4H_RETURN_PCT)
    /\ ~(m.vol_ratio < VOL_RATIO_MIN)
    /\ ~(m.last_ratio < LAST_CANDLE_RATIO_MIN)

\* variant: a failed trade request loses the instrument
analyze_inst_WhaleFatal(instId, m) ==
    IF PassesGates(m) /\ m.trades = "ok"
    THEN [instId |-> instId, ret |-> m.ret, vol_ratio |-> m.vol_ratio,
          last_ratio |-> m.last_ratio,
          whale_buy |-> m.whale_buy, whale_sell |-> m.whale_sell]
    ELSE NoResult

\* lines 153-205: the result dict, or NoResult for None
analyze_inst(instId, m) ==
    IF PassesGates(m)
    THEN [instId |-> instId, ret |-> m.ret, vol_ratio |-> m.vol_ratio,
          last_ratio |-> m.last_ratio,
          whale_buy |-> IF m.trades = "ok" THEN m.whale_buy ELSE 0,
          whale_sell |-> IF m.trades = "ok" THEN m.whale_sell ELSE 0]
    ELSE NoResult

\* variant: the trades are requested before the gates
AnalysisCalls_Eager(instId, m) ==
    {<<"candles", instId>>} \cup
    (IF m.candles = "ok" THEN {<<"trades", instId>>} ELSE {})

\* the requests analyze_inst makes for the instrument
AnalysisCalls(instId, m) ==
    {<<"candles", instId>>} \cup
    (IF m.candles = "ok" /\ PassesGates(m) THEN {<<"trades", instId>>} ELSE {})

----------------------------------------------------------------------------
(* The universe selector *)

QUOTE == "USDT"
StablePrefixes == {"USDC", "USDT", "DAI", "FDUSD", "TUSD"}

\* an instrument id "BASE-QUOTE"; n tells apart the coins of a long listing
InstId(base, quote, n) == [base |-> base, quote |-> quote, n |-> n]

\* a row of /api/v5/market/tickers: the id and the 24h traded value
Ticker(id, vol) == [instId |-> id, volCcy24h |-> vol]

\* line 100: instId.endswith("-USDT")
EndsWithQuote(id) == id.quote = QUOTE

\* line 103: instId.startswith(("USDC-", "USDT-", "DAI-", "FDUSD-", "TUSD-"))
StartsWithStable(id) == id.base \in StablePrefixes

\* lines 98-105: the rows that are kept
Listed(row) == EndsWithQuote(row.instId) /\ ~StartsWithStable(row.instId)

\* variant: the list is returned whole
list_usdt_spot_Untruncated(data) ==
    LET kept == SelectSeq(data, Listed)
    IN  [j \in 1..Len(kept) |-> kept[j].instId]

\* lines 95-106
list_usdt_spot(data) ==
    LET kept == SelectSeq(data, Listed)
        inst == [j \in 1..Len(kept) |-> kept[j].instId]
    IN  SubSeq(inst, 1, IF Len(inst) < MAX_SYMBOLS THEN Len(inst) ELSE MAX_SYMBOLS)

----------------------------------------------------------------------------
(* The ranker *)

\* line 247
whale_net(x) == x.whale_buy - x.whale_sell

\* variant: the sort key leaves out the net whale flow
SortKey_NoWhale(x) == <<x.vol_ratio, x.ret, 0>>

\* line 248: the sort key
SortKey(x) == <<x.vol_ratio, x.ret, whale_net(x)>>

\* tuple comparison of two keys
KeyGreater(a, b) ==
    \/ a[1] > b[1]
    \/ a[1] = b[1] /\ a[2] > b[2]
    \/ a[1] = b[1] /\ a[2] = b[2] /\ a[3] > b[3]

\* where x goes in a list sorted descending: behind every element that does
\* not rank below it (list.sort(reverse=True) keeps equal elements in order)
InsertAt(sorted, x) ==
    LET later == {j \in 1..Len(sorted) : KeyGreater(SortKey(x), SortKey(sorted[j]))}
    IN  IF later = {} THEN Len(sorted) + 1
        ELSE CHOOSE j \in later : \A l \in later : j <= l

Insert(sorted, x) ==
    LET at == InsertAt(sorted, x)
    IN  SubSeq(sorted, 1, at - 1) \o <<x>> \o SubSeq(sorted, at, Len(sorted))

RECURSIVE SortFrom(_, _, _)
SortFrom(results, n, acc) ==
    IF n > Len(results) THEN acc
    ELSE SortFrom(results, n + 1, Insert(acc, results[n]))

\* line 248
SortResults(results) == SortFrom(results, 1, <<>>)

\* line 249
TopOf(sorted) == SubSeq(sorted, 1, IF Len(sorted) < TopK THEN Len(sorted) ELSE TopK)

----------------------------------------------------------------------------
(* One invocation of main() *)

\* an answer of the exchange with the prices behind its trend flag
GateFeed(c, len, base, close, fast, slow, ret, vol, last, t) ==
    [candles |-> c, len |-> len, base_avg |-> base,
     trend_up |-> TrendUp(close, fast, slow),
     ret |-> ret, vol_ratio |-> vol, last_ratio |-> last,
     trades |-> t, whale_buy |-> 5, whale_sell |-> 0,
     close |-> close, ema_fast |-> fast, ema_slow |-> slow]

NoFeed == GateFeed("none", 0, 0, 0, 0, 0, 0, 0, 0, "none")

NoTimes == [i \in {} |-> 0]
NoChecks == [i \in {} |-> [t |-> 0, cd |-> None]]

IdleRun ==
    [pc |-> "idle", disk |-> Absent, state |-> DefaultState, loaded |-> DefaultState,
     today |-> NoDate, start |-> 0, admitted |-> -1, passed |-> <<>>,
     insts |-> <<>>, idx |-> 1, checked |-> NoChecks, skipped |-> {},
     results |-> <<>>, top |-> <<>>, k |-> 1, stamped |-> NoTimes,
     calls |-> {}, saved |-> FALSE, handed |-> FALSE, exit |-> "none",
     tickers |-> <<>>, feed |-> NoFeed, raised |-> {}]

NoAlert == [t |-> -1, exp |-> -1, date |-> NoDate]

\* the tickers the exchange may list, in its order
Universes ==
    {<<>>} \cup {<<i>> : i \in Instruments}
           \cup {u \in Instruments \X Instruments : u[1] # u[2]}

\* the persisted states a first run may find
InitFiles ==
    {Absent, Corrupt, Misshapen,
     Json([date |-> 0, sent |-> 1, cooldown |-> CdPut(EmptyMap, "A", Malformed)])}

TopIds(r) == {r.top[j].instId : j \in 1..Len(r.top)}
ResultIds(r) == {r.results[j].instId : j \in 1..Len(r.results)}

Init ==
    /\ file \in InitFiles
    /\ now = 0
    /\ run = [p \in RunIds |-> IdleRun]
    /\ outbox = [d \in Dates |-> [sameDay |-> 0, total |-> 0]]
    /\ alertLog = [i \in Instruments |-> NoAlert]

\* the places where main() reads the clock next: utc_now() at lines 209,
\* 228, 275 and the hand-off at line 280
ReadsClock(r) ==
    \/ r.pc \in {"idle", "render", "send"}
    \/ r.pc = "loop" /\ r.idx <= Len(r.insts)

\* the clock moves on, between runs or during one; time that passes at a
\* step that does not read the clock is the same as time passing before the
\* next step that does
Tick ==
    /\ now + TickHours <= MaxTime
    /\ \A p \in RunIds : ReadsClock(run[p])
    /\ now' = now + TickHours
    /\ UNCHANGED <<file, run, outbox, alertLog>>

\* lines 208-209: load_state() and today's date
Load(p) ==
    /\ run[p].pc = "idle"
    /\ run' = [run EXCEPT ![p] =
                 [IdleRun EXCEPT !.pc = IF load_state(file) = LoadError THEN "idle"
                                        ELSE "rollover",
                                 !.exit = IF load_state(file) = LoadError THEN "crash"
                                          ELSE "none",
                                 !.disk = file,
                                 !.state = load_state(file),
                                 !.loaded = load_state(file),
                                 !.today = DateOf(now),
                                 !.start = now]]
    /\ UNCHANGED <<file, now, outbox, alertLog>>

\* lines 210-213; state.get() raises on a value that is not a dict
Rollover(p) ==
    /\ run[p].pc = "rollover"
    /\ run' = IF run[p].state = NotAState
              THEN [run EXCEPT ![p].pc = "idle", ![p].exit = "crash"]
              ELSE [run EXCEPT ![p].pc = "admit",
                               ![p].state = RolloverState(run[p].state, run[p].today)]
    /\ UNCHANGED <<file, now, outbox, alertLog>>

\* lines 215-217: the admission check
Admit(p) ==
    /\ run[p].pc = "admit"
    /\ run' = [run EXCEPT ![p].admitted = run[p].state.sent,
                          ![p].pc = IF LimitReached(run[p].state) THEN "idle" ELSE "list",
                          ![p].exit = IF LimitReached(run[p].state) THEN "limit" ELSE "none"]
    /\ UNCHANGED <<file, now, outbox, alertLog>>

\* lines 219-220: list_usdt_spot() answers one of the lists us, or a
\* transport error ends the run
ListFrom(p, us) ==
    /\ run[p].pc = "list"
    /\ \/ \E u \in us :
             run' = [run EXCEPT ![p].pc = "loop",
                                ![p].insts = u,
                                ![p].idx = 1,
                                ![p].calls = @ \cup {<<"tickers", "">>}]
       \/ run' = [run EXCEPT ![p].pc = "idle",
                             ![p].exit = "error",
                             ![p].calls = @ \cup {<<"tickers", "">>}]
    /\ UNCHANGED <<file, now, outbox, alertLog>>

ListUniverse(p) == ListFrom(p, Universes)

\* lines 222-231: the cooldown check of the next instrument
CooldownCheck(p) ==
    LET r == run[p]
        instId == r.insts[r.idx]
        cd == CdGet(r.state.cooldown, instId)
    IN  /\ r.pc = "loop"
        /\ r.idx <= Len(r.insts)
        /\ run' = [run EXCEPT ![p].checked = [i \in (DOMAIN r.checked) \cup {instId} |->
                                                 IF i = instId THEN [t |-> now, cd |-> cd]
                                                 ELSE r.checked[i]],
                              ![p].pc = IF CooldownActive(cd, now) THEN "loop" ELSE "analyze",
                              ![p].idx = IF CooldownActive(cd, now) THEN r.idx + 1 ELSE r.idx,
                              ![p].skipped = IF CooldownActive(cd, now)
                                             THEN r.skipped \cup {instId} ELSE r.skipped]
        /\ UNCHANGED <<file, now, outbox, alertLog>>

\* variant: an exception of the analysis ends the run
AnalyzeWith_Abort(p, M) ==
    LET r == run[p]
        instId == r.insts[r.idx]
    IN  /\ r.pc = "analyze"
        /\ \E m \in M :
             LET res == analyze_inst(instId, m)
                 keep == m.candles = "ok" /\ res # NoResult
             IN  run' = [run EXCEPT ![p].pc = IF m.candles = "ok" THEN "loop" ELSE "idle",
                                    ![p].exit = IF m.candles = "ok" THEN @ ELSE "crash",
                                    ![p].idx = r.idx + 1,
                                    ![p].calls = @ \cup AnalysisCalls(instId, m),
                                    ![p].raised = IF m.candles = "ok" THEN @ ELSE @ \cup {instId},
                                    ![p].results = IF keep THEN Append(@, res) ELSE @]
        /\ UNCHANGED <<file, now, outbox, alertLog>>

\* lines 233-240: analyze_inst() under the per-instrument try/except, with
\* the exchange answering one of M
AnalyzeWith(p, M) ==
    LET r == run[p]
        instId == r.insts[r.idx]
    IN  /\ r.pc = "analyze"
        /\ \E m \in M :
             LET res == analyze_inst(instId, m)
                 keep == m.candles = "ok" /\ res # NoResult
             IN  run' = [run EXCEPT ![p].pc = "loop",
                                    ![p].idx = r.idx + 1,
                                    ![p].calls = @ \cup AnalysisCalls(instId, m),
                                    ![p].raised = IF m.candles = "ok" THEN @ ELSE @ \cup {instId},
                                    ![p].results = IF keep THEN Append(@, res) ELSE @]
        /\ UNCHANGED <<file, now, outbox, alertLog>>

Analyze(p) == AnalyzeWith(p, Markets)

\* variant: the empty-result notice is counted and saved like a signal
NoMatch_Counted(p) ==
    LET r == run[p]
        st == [r.state EXCEPT !.sent = r.state.sent + 1]
    IN  /\ r.pc = "loop"
        /\ r.idx > Len(r.insts)
        /\ r.results = <<>>
        /\ \E delivered \in BOOLEAN :
             run' = [run EXCEPT ![p].pc = "idle",
                                ![p].state = st,
                                ![p].exit = IF delivered THEN "nomatch" ELSE "nomatch-error"]
        /\ file' = Json(st)
        /\ UNCHANGED <<now, outbox, alertLog>>

\* variant: the empty-result run saves its state before it returns
NoMatch_Saves(p) ==
    LET r == run[p]
    IN  /\ r.pc = "loop"
        /\ r.idx > Len(r.insts)
        /\ r.results = <<>>
        /\ \E delivered \in BOOLEAN :
             run' = [run EXCEPT ![p].pc = "idle",
                                ![p].exit = IF delivered THEN "nomatch" ELSE "nomatch-error"]
        /\ file' = Json(r.state)
        /\ UNCHANGED <<now, outbox, alertLog>>

\* lines 242-244: nothing passed; the notice is sent and the run returns
NoMatch(p) ==
    LET r == run[p]
    IN  /\ r.pc = "loop"
        /\ r.idx > Len(r.insts)
        /\ r.results = <<>>
        /\ \E delivered \in BOOLEAN :
             run' = [run EXCEPT ![p].pc = "idle",
                                ![p].exit = IF delivered THEN "nomatch" ELSE "nomatch-error"]
        /\ UNCHANGED <<file, now, outbox, alertLog>>

\* lines 246-256: sort, take the top, start the message
Rank(p) ==
    LET r == run[p]
    IN  /\ r.pc = "loop"
        /\ r.idx > Len(r.insts)
        /\ r.results # <<>>
        /\ run' = [run EXCEPT ![p].pc = "render",
                              ![p].passed = r.results,
                              ![p].results = SortResults(r.results),
                              ![p].top = TopOf(SortResults(r.results)),
                              ![p].k = 1]
        /\ UNCHANGED <<file, now, outbox, alertLog>>

\* lines 258-275: one line of the message and the instrument's cooldown
Render(p) ==
    LET r == run[p]
        instId == r.top[r.k].instId
    IN  /\ r.pc = "render"
        /\ r.k <= Len(r.top)
        /\ run' = [run EXCEPT ![p].k = r.k + 1,
                              ![p].state.cooldown = CdPut(@, instId, CooldownStamp(now)),
                              ![p].stamped = [i \in (DOMAIN r.stamped) \cup {instId} |->
                                                 IF i = instId THEN now ELSE r.stamped[i]]]
        /\ UNCHANGED <<file, now, outbox, alertLog>>

\* variant: the save re-reads the file under a lock and adds to what is there
Save_Merged(p) ==
    LET r == run[p]
        st == [r.state EXCEPT !.sent = SentAfter(r)]
        onDisk == RolloverState(load_state(file), r.today)
        merged == [st EXCEPT !.sent = onDisk.sent + 1,
                             !.cooldown = [i \in (DOMAIN onDisk.cooldown) \cup (DOMAIN st.cooldown) |->
                                             IF i \in DOMAIN r.stamped THEN st.cooldown[i]
                                             ELSE IF i \in DOMAIN onDisk.cooldown
                                                  THEN onDisk.cooldown[i]
                                                  ELSE st.cooldown[i]]]
    IN  /\ r.pc = "render"
        /\ r.k > Len(r.top)
        /\ run' = [run EXCEPT ![p].pc = "send", ![p].state = st, ![p].saved = TRUE]
        /\ file' = Json(merged)
        /\ UNCHANGED <<now, outbox, alertLog>>

\* lines 277-278: count the alert and save_state()
Save(p) ==
    LET r == run[p]
        st == [r.state EXCEPT !.sent = SentAfter(r)]
    IN  /\ r.pc = "render"
        /\ r.k > Len(r.top)
        /\ run' = [run EXCEPT ![p].pc = "send", ![p].state = st, ![p].saved = TRUE]
        /\ file' = Json(st)
        /\ UNCHANGED <<now, outbox, alertLog>>

\* line 280: send_telegram() with the message; it may raise
Send(p) ==
    LET r == run[p]
        d == DateOf(now)
    IN  /\ r.pc = "send"
        /\ \E delivered \in BOOLEAN :
             run' = [run EXCEPT ![p].pc = "idle",
                                ![p].handed = TRUE,
                                ![p].exit = IF delivered THEN "signal" ELSE "signal-error"]
        /\ outbox' = [outbox EXCEPT ![d].total = @ + 1,
                                    ![d].sameDay = IF r.today = d THEN @ + 1 ELSE @]
        /\ alertLog' = [i \in Instruments |->
                          IF i \in TopIds(r)
                          THEN [t |-> now,
                                exp |-> FromIso(ReplaceSuffix(r.state.cooldown[i], "Z", "+00:00")),
                                date |-> r.today]
                          ELSE alertLog[i]]
        /\ UNCHANGED <<file, now>>

Step(p) ==
    \/ Load(p) \/ Rollover(p) \/ Admit(p) \/ ListUniverse(p)
    \/ CooldownCheck(p) \/ Analyze(p) \/ NoMatch(p)
    \/ Rank(p) \/ Render(p) \/ Save(p) \/ Send(p)

\* runs follow one another: the scheduler starts main() again when it has returned
Next == Tick \/ Step(1)

Spec == Init /\ [][Next]_vars

----------------------------------------------------------------------------
(* Two invocations of main() against the same state file: nothing in the
   code (no lock, no re-read before line 278) keeps a second process from
   starting while the first is between load_state() and save_state() *)

NextConc == \E p \in RunIds : Step(p)

SpecConc == Init /\ [][NextConc]_vars

-----------------------------------------------------------------------------
(* The ranker on its own: every list of passing results, up to MaxResults *)

\* (vol_ratio, ret, whale_buy, whale_sell) of a passing result
RankKeys == {<<30, 10, 0, 0>>, <<20, 20, 0, 0>>, <<20, 10, 5, 0>>, <<20, 10, 0, 5>>}

InitRank ==
    /\ file = Absent
    /\ now = 0
    /\ run = [p \in RunIds |->
                IF p = 1 THEN [IdleRun EXCEPT !.pc = "loop", !.today = 0, !.admitted = 0]
                ELSE IdleRun]
    /\ outbox = [d \in Dates |-> [sameDay |-> 0, total |-> 0]]
    /\ alertLog = [i \in Instruments |-> NoAlert]

\* line 236: one more result is collected; its id is its place in the input
Collect(p) ==
    /\ run[p].pc = "loop"
    /\ Len(run[p].results) < MaxResults
    /\ \E key \in RankKeys :
         run' = [run EXCEPT ![p].results =
                    Append(@, [instId |-> Len(run[p].results) + 1,
                               ret |-> key[2], vol_ratio |-> key[1],
                               last_ratio |-> LAST_CANDLE_RATIO_MIN,
                               whale_buy |-> key[3], whale_sell |-> key[4]])]
    /\ UNCHANGED <<file, now, outbox, alertLog>>

NextRank == Collect(1) \/ Rank(1)

SpecRank == InitRank /\ [][NextRank]_vars

----------------------------------------------------------------------------
(* The universe selector on its own: ticker lists of a few varied rows and a
   long run of ordinary coins before or after them *)

HeadRows ==
    { Ticker(InstId("BTC", "USDT", 0), 2),
      Ticker(InstId("ETH", "USDT", 0), 5),
      Ticker(InstId("XRP", "USDT", 0), 0),
      Ticker(InstId("USDC", "USDT", 0), 9),
      Ticker(InstId("DAI", "USDT", 0), 1),
      Ticker(InstId("BTC", "USDC", 0), 7) }

PadSizes == {1, MAX_SYMBOLS - 2, MAX_SYMBOLS, MaxPad}

PadRows(n) == [j \in 1..n |-> Ticker(InstId("COIN", "USDT", j), 3)]

InitUniverse ==
    /\ file = Absent
    /\ now = 0
    /\ run = [p \in RunIds |->
                IF p = 1 THEN [IdleRun EXCEPT !.pc = "list", !.today = 0, !.admitted = 0]
                ELSE IdleRun]
    /\ outbox = [d \in Dates |-> [sameDay |-> 0, total |-> 0]]
    /\ alertLog = [i \in Instruments |-> NoAlert]

Padded(data) == \E j \in 1..Len(data) : data[j].instId.base = "COIN"

\* the exchange lists one more instrument
AddTicker(p) ==
    /\ run[p].pc = "list"
    /\ ~Padded(run[p].tickers)
    /\ Len(run[p].tickers) < MaxHead
    /\ \E row \in HeadRows :
         /\ \A j \in 1..Len(run[p].tickers) : run[p].tickers[j] # row
         /\ run' = [run EXCEPT ![p].tickers = Append(@, row)]
    /\ UNCHANGED <<file, now, outbox, alertLog>>

\* the exchange lists a run of ordinary coins, before or after the others
PadTickers(p) ==
    /\ run[p].pc = "list"
    /\ ~Padded(run[p].tickers)
    /\ \E n \in PadSizes, front \in BOOLEAN :
         run' = [run EXCEPT ![p].tickers =
                    IF front THEN PadRows(n) \o @ ELSE @ \o PadRows(n)]
    /\ UNCHANGED <<file, now, outbox, alertLog>>

\* line 219 on the listing at hand
ListSpot(p) == ListFrom(p, {list_usdt_spot(run[p].tickers)})

NextUniverse == AddTicker(1) \/ PadTickers(1) \/ ListSpot(1)

SpecUniverse == InitUniverse /\ [][NextUniverse]_vars

----------------------------------------------------------------------------
(* The analysis of one instrument on its own: every answer of the exchange
   around the thresholds *)

Around(x) == {x - 1, x, x + 1}

Prices == {<<3, 2, 1>>, <<2, 2, 1>>, <<3, 2, 2>>, <<1, 2, 3>>, <<3, 1, 2>>}

GateFeeds ==
    { GateFeed("ok", len, base, px[1], px[2], px[3], ret, vol, last, t) :
        len \in Around(MinHistory), base \in {-100, 0, 100}, px \in Prices,
        ret \in Around(MIN_4H_RETURN_PCT), vol \in Around(VOL_RATIO_MIN),
        last \in Around(LAST_CANDLE_RATIO_MIN), t \in {"ok", "error"} }
    \cup { GateFeed("error", 0, 0, 0, 0, 0, 0, 0, 0, "ok") }

InitAnalyze ==
    /\ file = Absent
    /\ now = 0
    /\ run = [p \in RunIds |->
                IF p = 1 THEN [IdleRun EXCEPT !.pc = "analyze", !.today = 0, !.admitted = 0,
                                              !.insts = <<"A">>, !.idx = 1,
                                              !.calls = {<<"tickers", "">>}]
                ELSE IdleRun]
    /\ outbox = [d \in Dates |-> [sameDay |-> 0, total |-> 0]]
    /\ alertLog = [i \in Instruments |-> NoAlert]

\* lines 108-109, 134: what the exchange will answer for the instrument
Quote(p) ==
    /\ run[p].pc = "analyze"
    /\ run[p].feed = NoFeed
    /\ \E m \in GateFeeds : run' = [run EXCEPT ![p].feed = m]
    /\ UNCHANGED <<file, now, outbox, alertLog>>

\* line 234 on that answer
AnalyzeQuoted(p) ==
    /\ run[p].feed # NoFeed
    /\ AnalyzeWith(p, {run[p].feed})

NextAnalyze == Quote(1) \/ AnalyzeQuoted(1)

SpecAnalyze == InitAnalyze /\ [][NextAnalyze]_vars

----------------------------------------------------------------------------
(* Properties *)

\* the expiry a stored cooldown value denotes, read independently of the code
StampOk(cd) == cd.z \in {"Z", "+00:00"}
StampTime(cd) == cd.d * HoursPerDay + cd.h

\* C1: a run whose counter, after the date rollover, has reached
\* DAILY_ALERT_LIMIT returns at the admission check and has made no
\* market-data request (tickers, candles, trades).
C1_NoMarketCallAtLimit ==
    \A p \in RunIds :
        run[p].admitted >= DAILY_ALERT_LIMIT =>
            /\ run[p].calls = {}
            /\ run[p].pc = "idle"
            /\ run[p].exit = "limit"

C1_Witness ==
    \E p \in RunIds :
        /\ run[p].exit = "limit"
        /\ run[p].admitted = DAILY_ALERT_LIMIT
        /\ run[p].loaded.date = run[p].today

\* C2: with runs one after another, the signal notifications handed off on a
\* date by runs of that date never number more than DAILY_ALERT_LIMIT, and
\* the persisted counter never exceeds DAILY_ALERT_LIMIT.
C2_DailyCap ==
    /\ \A d \in Dates : outbox[d].sameDay <= DAILY_ALERT_LIMIT
    /\ file.kind = "json" => file.sent <= DAILY_ALERT_LIMIT

C2_Witness ==
    \E d \in Dates, p \in RunIds :
        /\ outbox[d].sameDay = DAILY_ALERT_LIMIT
        /\ file.kind = "json" /\ file.sent = DAILY_ALERT_LIMIT /\ file.date = d
        /\ run[p].exit = "limit"
        /\ run[p].today = d

\* C3 as claimed: an instrument listed in a signal notification at time t is
\* listed by no later run that starts before t + COOLDOWN_HOURS.
C3_SuppressedForWholePeriod ==
    \A p \in RunIds :
        run[p].pc = "send" =>
            \A i \in TopIds(run[p]) :
                alertLog[i].t >= 0 =>
                    ~(run[p].start < alertLog[i].t + COOLDOWN_HOURS)

\* C3 as amended: an instrument listed in a signal notification, with its
\* cooldown stamped to expire at e, is listed by no later run that starts on
\* the same UTC date as the notifying run and checks the instrument's
\* cooldown while the clock is before e.
C3_SuppressedSameDateUntilExpiry ==
    \A p \in RunIds :
        run[p].pc = "send" =>
            \A i \in TopIds(run[p]) :
                (alertLog[i].t >= 0 /\ alertLog[i].date = run[p].today) =>
                    /\ i \in DOMAIN run[p].checked
                    /\ run[p].checked[i].t >= alertLog[i].exp

C3_Witness ==
    \E p \in RunIds, i \in Instruments :
        /\ run[p].pc = "send"
        /\ alertLog[i].t >= 0
        /\ alertLog[i].date = run[p].today
        /\ i \in run[p].skipped
        /\ run[p].checked[i].t < alertLog[i].exp
        /\ i \notin TopIds(run[p])

\* C4: when the admission check is evaluated the state carries today's date,
\* and a state loaded with another date has had its counter set to 0 and its
\* cooldown map emptied; a run is refused only on a counter of today.
C4_RolloverBeforeAdmission ==
    \A p \in RunIds :
        /\ run[p].pc = "admit" =>
              /\ run[p].state.date = run[p].today
              /\ run[p].loaded.date # run[p].today =>
                    /\ run[p].state.sent = 0
                    /\ run[p].state.cooldown = EmptyMap
        /\ run[p].exit = "limit" =>
              /\ run[p].loaded.date = run[p].today
              /\ run[p].loaded.sent >= DAILY_ALERT_LIMIT

C4_Witness ==
    \E p \in RunIds :
        /\ run[p].pc = "list"
        /\ run[p].loaded.date # run[p].today
        /\ run[p].loaded.sent >= DAILY_ALERT_LIMIT
        /\ run[p].loaded.cooldown # EmptyMap
        /\ run[p].admitted = 0

\* C5: an instrument whose cooldown entry, at its check, is a timestamp later
\* than the clock is skipped with no candle or trade request and is not in
\* the results; one whose entry is absent or earlier than the clock goes on
\* to the analysis.
C5_CooldownCheck ==
    \A p \in RunIds :
        \A i \in DOMAIN run[p].checked :
            LET c == run[p].checked[i]
                analysed == \/ <<"candles", i>> \in run[p].calls
                            \/ run[p].pc = "analyze" /\ run[p].insts[run[p].idx] = i
            IN  /\ (StampOk(c.cd) /\ StampTime(c.cd) > c.t) =>
                      /\ i \in run[p].skipped
                      /\ ~analysed
                      /\ <<"trades", i>> \notin run[p].calls
                      /\ i \notin ResultIds(run[p])
                /\ (c.cd = None \/ (StampOk(c.cd) /\ StampTime(c.cd) < c.t)) =>
                      /\ i \notin run[p].skipped
                      /\ analysed

C5_Witness ==
    \E p \in RunIds :
        /\ run[p].pc = "idle"
        /\ Len(run[p].insts) = 2
        /\ LET a == run[p].checked[run[p].insts[1]]
               b == run[p].checked[run[p].insts[2]]
           IN  /\ StampOk(a.cd) /\ StampTime(a.cd) > a.t
               /\ StampOk(b.cd) /\ StampTime(b.cd) < b.t
               /\ run[p].insts[2] \in ResultIds(run[p])

\* C6 as claimed: a run has written the throttle state (cooldowns, counter,
\* file) only once its signal message has been handed to send_telegram.
C6_UpdateOnlyAfterHandOff ==
    \A p \in RunIds : run[p].saved => run[p].handed

\* C7: a run that sends a signal notification leaves the counter, in memory
\* and on disk, exactly 1 above its value at the admission check, however
\* many instruments the notification lists.
C7_OneIncrementPerRun ==
    \A p \in RunIds :
        run[p].saved =>
            /\ run[p].state.sent = run[p].admitted + 1
            /\ file.kind = "json"
            /\ file.sent = run[p].admitted + 1

C7_Witness ==
    \E p \in RunIds :
        /\ run[p].handed
        /\ Len(run[p].top) = 2
        /\ run[p].admitted = 1
        /\ file.sent = 2

\* C8: after a run has sent a signal notification, the persisted state holds
\* for every instrument of the top list a cooldown entry whose expiry is the
\* clock at that instrument's update plus COOLDOWN_HOURS.
C8_CooldownStamped ==
    \A p \in RunIds :
        run[p].handed =>
            \A i \in TopIds(run[p]) :
                /\ file.kind = "json"
                /\ i \in DOMAIN file.cooldown
                /\ i \in DOMAIN run[p].stamped
                /\ StampOk(file.cooldown[i])
                /\ StampTime(file.cooldown[i]) = run[p].stamped[i] + COOLDOWN_HOURS

C8_Witness ==
    \E p \in RunIds :
        /\ run[p].handed
        /\ TopIds(run[p]) = Instruments
        /\ \E i, j \in Instruments : run[p].stamped[i] < run[p].stamped[j]

\* C9: an admitted run whose loop ends with no result sends the "no match"
\* notice and returns; it has not saved, the file is as the run found it, the
\* counter is what it was at the admission check and no cooldown was stamped.
C9_EmptyRunLeavesState ==
    \A p \in RunIds :
        /\ (run[p].pc = "idle" /\ run[p].admitted \in 0 .. (DAILY_ALERT_LIMIT - 1)
              /\ run[p].exit # "error" /\ run[p].results = <<>>) =>
                 run[p].exit \in {"nomatch", "nomatch-error"}
        /\ run[p].exit \in {"nomatch", "nomatch-error"} =>
              /\ run[p].results = <<>>
              /\ ~run[p].saved
              /\ file = run[p].disk
              /\ run[p].state.sent = run[p].admitted
              /\ run[p].stamped = NoTimes
              /\ run[p].state.cooldown =
                    RolloverState(run[p].loaded, run[p].today).cooldown

C9_Witness ==
    \E p \in RunIds :
        /\ run[p].exit = "nomatch"
        /\ Len(run[p].insts) = 2
        /\ run[p].admitted = 2
        /\ file.kind = "json" /\ file.sent = 2 /\ file.cooldown # EmptyMap

\* the ranking order, written out: a ranks strictly above b
RanksAbove(a, b) ==
    \/ a.vol_ratio > b.vol_ratio
    \/ a.vol_ratio = b.vol_ratio /\ a.ret > b.ret
    \/ /\ a.vol_ratio = b.vol_ratio /\ a.ret = b.ret
       /\ a.whale_buy - a.whale_sell > b.whale_buy - b.whale_sell

\* C10: the top list of a list of passing results has length min(TopK, n),
\* is non-increasing in (vol_ratio, ret, whale_buy - whale_sell), is made of
\* results of the input none of which ranks below a result left out, and
\* keeps results with equal keys in input order (also across the cut).
C10_RankedTop ==
    \A p \in RunIds :
        run[p].pc = "render" =>
            LET inp == run[p].passed
                top == run[p].top
                n == Len(inp)
                m == Len(top)
                pos(x) == CHOOSE j \in 1..n : inp[j] = x
                out == {inp[j] : j \in 1..n} \ {top[a] : a \in 1..m}
            IN  /\ m = (IF n < TopK THEN n ELSE TopK)
                /\ \A a \in 1..m : \E j \in 1..n : inp[j] = top[a]
                /\ \A a, b \in 1..m : a < b =>
                      /\ top[a] # top[b]
                      /\ ~RanksAbove(top[b], top[a])
                      /\ ~RanksAbove(top[a], top[b]) => pos(top[a]) < pos(top[b])
                /\ \A x \in out : \A a \in 1..m :
                      /\ ~RanksAbove(x, top[a])
                      /\ ~RanksAbove(top[a], x) => pos(top[a]) < pos(x)

C10_Witness ==
    \E p \in RunIds :
        /\ run[p].pc = "render"
        /\ Len(run[p].passed) > TopK
        /\ Len(run[p].top) = TopK
        /\ \E j \in 1..TopK : \A a \in 1..TopK : run[p].top[a] # run[p].passed[j]
        /\ \E a \in 1..(TopK - 1) :
              /\ ~RanksAbove(run[p].top[a], run[p].top[a + 1])
              /\ run[p].top[a].instId < run[p].top[a + 1].instId
        /\ \E a \in 1..(TopK - 1) :
              /\ run[p].top[a].vol_ratio = run[p].top[a + 1].vol_ratio
              /\ run[p].top[a].ret = run[p].top[a + 1].ret
              /\ RanksAbove(run[p].top[a], run[p].top[a + 1])
              /\ run[p].top[a].instId > run[p].top[a + 1].instId

\* the selector as claimed: quote currency, no stable base, positive traded
\* value, descending by traded value with ties in source order
Tradable(row) ==
    /\ row.instId.quote = "USDT"
    /\ row.instId.base \notin {"USDC", "USDT", "DAI", "FDUSD", "TUSD"}
    /\ row.volCcy24h > 0

RECURSIVE ByValueFrom(_, _, _)
ByValueFrom(rows, n, acc) ==
    IF n > Len(rows) THEN acc
    ELSE LET x == rows[n]
             lower == {j \in 1..Len(acc) : acc[j].volCcy24h < x.volCcy24h}
             at == IF lower = {} THEN Len(acc) + 1
                   ELSE CHOOSE j \in lower : \A l \in lower : j <= l
         IN  ByValueFrom(rows, n + 1,
                 SubSeq(acc, 1, at - 1) \o <<x>> \o SubSeq(acc, at, Len(acc)))

ClaimedUniverse(data) ==
    LET sorted == ByValueFrom(SelectSeq(data, Tradable), 1, <<>>)
        m == IF Len(sorted) < MAX_SYMBOLS THEN Len(sorted) ELSE MAX_SYMBOLS
    IN  [j \in 1..m |-> sorted[j].instId]

\* C11 as claimed: list_usdt_spot returns the instruments quoted in USDT with
\* a non-stable base and a positive 24h traded value, in descending order of
\* traded value (ties in source order), cut to MAX_SYMBOLS.
C11_SelectedByTradedValue ==
    \A p \in RunIds :
        (run[p].pc = "loop" /\ run[p].tickers # <<>>) =>
            run[p].insts = ClaimedUniverse(run[p].tickers)

\* C11 as amended: list_usdt_spot returns, in the order of the ticker list,
\* the ids that end in -USDT and do not start with a stable prefix, cut to
\* the first MAX_SYMBOLS; the traded value plays no part.
C11_SelectedInListingOrder ==
    \A p \in RunIds :
        (run[p].pc = "loop" /\ run[p].tickers # <<>>) =>
            LET data == run[p].tickers
                out == run[p].insts
                ok(j) == /\ data[j].instId.quote = "USDT"
                         /\ data[j].instId.base \notin {"USDC", "USDT", "DAI", "FDUSD", "TUSD"}
                rank(j) == Cardinality({i \in 1..j : ok(i)})
                all == Cardinality({i \in 1..Len(data) : ok(i)})
            IN  /\ Len(out) = (IF all < MAX_SYMBOLS THEN all ELSE MAX_SYMBOLS)
                /\ \A j \in 1..Len(data) :
                      (ok(j) /\ rank(j) <= MAX_SYMBOLS) => out[rank(j)] = data[j].instId

C11_Witness ==
    \E p \in RunIds :
        /\ run[p].pc = "loop"
        /\ Len(run[p].tickers) > MAX_SYMBOLS + 2
        /\ Len(run[p].insts) = MAX_SYMBOLS
        /\ run[p].insts[1].base = "XRP"
        /\ run[p].insts[2].base = "ETH"
        /\ \E j \in 1..Len(run[p].tickers) : run[p].tickers[j].instId.base = "USDC"

\* the run of SpecAnalyze has analysed its instrument on the answer feed
Analysed(r) == r.feed # NoFeed /\ r.pc # "analyze"

\* the gates on a feed, written out
GatesHold(m) ==
    /\ m.base_avg > 0
    /\ m.close > m.ema_fast /\ m.ema_fast > m.ema_slow
    /\ m.ret >= 10
    /\ m.vol_ratio >= 20
    /\ m.last_ratio >= 16

\* C12 as claimed: a candle window of length <= EMA_SLOW + VOL_BASELINE +
\* VOL_SPIKE_LOOKBACK + 5 (82) gives None, never a result.
C12_NoneUpToThreshold ==
    \A p \in RunIds :
        (Analysed(run[p]) /\ run[p].feed.len <= 50 + 24 + 3 + 5) =>
            run[p].results = <<>>

\* C12 as amended: a candle window of length < 82 gives None, never a
\* result; a window of exactly 82 candles is analysed like a longer one.
C12_NoneBelowThreshold ==
    \A p \in RunIds :
        Analysed(run[p]) =>
            /\ run[p].feed.len < 50 + 24 + 3 + 5 => run[p].results = <<>>
            /\ (run[p].feed.len = 50 + 24 + 3 + 5 /\ run[p].feed.candles = "ok"
                  /\ GatesHold(run[p].feed)) => Len(run[p].results) = 1

C12_Witness ==
    \E p \in RunIds :
        /\ Analysed(run[p])
        /\ run[p].feed.len = 81
        /\ run[p].feed.candles = "ok"
        /\ GatesHold(run[p].feed)
        /\ run[p].results = <<>>

\* C17: the trade history of an instrument is requested only when its
\* candles came, the history is long enough, the baseline is positive and
\* all four gates (trend, momentum, volume spike, last candle) passed.
C17_WhaleAfterGates ==
    \A p \in RunIds :
        (Analysed(run[p]) /\ <<"trades", "A">> \in run[p].calls) =>
            /\ run[p].feed.candles = "ok"
            /\ run[p].feed.len >= 50 + 24 + 3 + 5
            /\ GatesHold(run[p].feed)

C17_Witness ==
    \E p \in RunIds :
        /\ Analysed(run[p])
        /\ <<"candles", "A">> \in run[p].calls
        /\ <<"trades", "A">> \notin run[p].calls
        /\ run[p].feed.len = 83 /\ run[p].feed.base_avg = 100
        /\ run[p].feed.close = 3 /\ run[p].feed.ema_fast = 2 /\ run[p].feed.ema_slow = 1
        /\ run[p].feed.ret = 10 /\ run[p].feed.vol_ratio = 20
        /\ run[p].feed.last_ratio = 15

\* C18: with enough history, the analysis returns a result exactly when the
\* baseline is positive, close > fast EMA > slow EMA (both strict),
\* ret >= MIN_4H_RETURN_PCT, vol_ratio >= VOL_RATIO_MIN and
\* last_ratio >= LAST_CANDLE_RATIO_MIN.
C18_FilterPredicate ==
    \A p \in RunIds :
        (Analysed(run[p]) /\ run[p].feed.candles = "ok"
           /\ run[p].feed.len >= 50 + 24 + 3 + 5) =>
            /\ run[p].results # <<>> <=> GatesHold(run[p].feed)
            /\ run[p].results # <<>> =>
                  /\ Len(run[p].results) = 1
                  /\ run[p].results[1].instId = "A"
                  /\ run[p].results[1].ret = run[p].feed.ret
                  /\ run[p].results[1].vol_ratio = run[p].feed.vol_ratio

C18_Witness ==
    \E p \in RunIds :
        /\ Analysed(run[p])
        /\ run[p].feed.len = 83 /\ run[p].feed.base_avg = 100
        /\ run[p].feed.close = 3 /\ run[p].feed.ema_fast = 2 /\ run[p].feed.ema_slow = 1
        /\ run[p].feed.ret = 10 /\ run[p].feed.vol_ratio = 20
        /\ run[p].feed.last_ratio = 16
        /\ Len(run[p].results) = 1

\* C19: when the trade request fails for an instrument that passed all four
\* gates, the instrument is still a result, with whale_buy = whale_sell = 0,
\* and the loop goes on.
C19_WhaleFailureAbsorbed ==
    \A p \in RunIds :
        (Analysed(run[p]) /\ run[p].feed.candles = "ok"
           /\ run[p].feed.len >= 50 + 24 + 3 + 5
           /\ GatesHold(run[p].feed) /\ run[p].feed.trades = "error") =>
            /\ Len(run[p].results) = 1
            /\ run[p].results[1].whale_buy = 0
            /\ run[p].results[1].whale_sell = 0
            /\ run[p].pc = "loop"
            /\ run[p].raised = {}

C19_Witness ==
    \E p \in RunIds :
        /\ Analysed(run[p])
        /\ run[p].feed.trades = "error"
        /\ run[p].feed.whale_buy = 5
        /\ <<"trades", "A">> \in run[p].calls
        /\ Len(run[p].results) = 1
        /\ run[p].results[1].whale_buy = 0

\* C13: an instrument whose candle request or analysis raised is not in the
\* results; the run is not ended by it: every instrument of the universe is
\* still visited and the run ends in a notification; through the loop the
\* throttle state in memory and on disk stays what it was after the rollover.
C13_SoftFailure ==
    \A p \in RunIds :
        /\ run[p].raised \cap ResultIds(run[p]) = {}
        /\ run[p].raised # {} =>
              /\ run[p].exit # "crash"
              /\ run[p].pc = "idle" =>
                    /\ run[p].exit \in {"nomatch", "nomatch-error", "signal", "signal-error"}
                    /\ \A j \in 1..Len(run[p].insts) :
                          run[p].insts[j] \in DOMAIN run[p].checked
              /\ run[p].pc \in {"loop", "analyze"} =>
                    /\ run[p].state = RolloverState(run[p].loaded, run[p].today)
                    /\ file = run[p].disk

C13_Witness ==
    \E p \in RunIds :
        /\ run[p].pc = "idle"
        /\ run[p].exit = "signal"
        /\ Len(run[p].insts) = 2
        /\ run[p].raised = {run[p].insts[1]}
        /\ ResultIds(run[p]) = {run[p].insts[2]}

\* C14: a run that finds an unparseable state file starts from the default
\* state {date: "", sent: 0, cooldown: {}} and gets past the admission check
\* without an exception.
C14_CorruptFileNotFatal ==
    \A p \in RunIds :
        run[p].disk.kind = "corrupt" =>
            /\ run[p].loaded = [date |-> NoDate, sent |-> 0, cooldown |-> EmptyMap]
            /\ run[p].exit \notin {"crash", "limit"}
            /\ run[p].pc \notin {"rollover", "admit"} => run[p].admitted = 0

C14_Witness ==
    \E p \in RunIds :
        /\ run[p].disk.kind = "corrupt"
        /\ run[p].pc = "list"
        /\ run[p].state = [date |-> DateOf(now), sent |-> 0, cooldown |-> EmptyMap]

\* C15: an instrument whose cooldown entry does not parse as a timestamp is
\* not skipped: it goes on to the analysis, and no exception leaves the run.
C15_FailOpenCooldown ==
    \A p \in RunIds :
        \A i \in DOMAIN run[p].checked :
            LET c == run[p].checked[i]
            IN  (c.cd # None /\ ~StampOk(c.cd)) =>
                    /\ i \notin run[p].skipped
                    /\ \/ <<"candles", i>> \in run[p].calls
                       \/ run[p].pc = "analyze" /\ run[p].insts[run[p].idx] = i
                    /\ run[p].exit # "crash"

C15_Witness ==
    \E p \in RunIds :
        /\ run[p].pc = "idle"
        /\ run[p].exit = "signal"
        /\ "A" \in DOMAIN run[p].checked
        /\ run[p].checked["A"].cd = Malformed
        /\ "A" \in ResultIds(run[p])

\* C20 as claimed: a run that ends with its in-memory state changed, be it
\* only by the date rollover, has saved it: the file holds that state.
C20_SavedWhenMutated ==
    \A p \in RunIds :
        (run[p].pc = "idle" /\ run[p].exit \in {"limit", "nomatch", "signal"}
           /\ run[p].state # run[p].loaded) =>
            file = Json(run[p].state)

\* C20 as amended: a run saves its state exactly when it sends a signal
\* notification; a run that ends otherwise, also one that reset the state at
\* the date rollover and found no match, leaves the file as it found it.
C20_SavedOnlyWithSignal ==
    \A p \in RunIds :
        (run[p].pc = "idle" /\ run[p].exit # "none") =>
            /\ run[p].saved <=> run[p].exit \in {"signal", "signal-error"}
            /\ run[p].saved => file = Json(run[p].state)
            /\ ~run[p].saved => file = run[p].disk

C20_Witness ==
    \E p \in RunIds :
        /\ run[p].pc = "idle"
        /\ run[p].exit = "nomatch"
        /\ run[p].loaded.date \notin {NoDate, run[p].today}
        /\ run[p].state.sent = 0
        /\ file.kind = "json" /\ file.date # run[p].today /\ file.sent > 0

\* C16: two runs that both loaded the state file before either saved it and
\* both reached save_state() were admitted on the same counter; the file then
\* holds the last writer's state alone: the counter is one above what both
\* loaded although two notifications were handed off, and an instrument only
\* the other run reported has the cooldown entry the last writer loaded, not
\* the other run's stamp.
C16_LostUpdate ==
    \A p \in RunIds : \A q \in RunIds \ {p} :
        (run[p].saved /\ run[q].saved /\ run[p].disk = run[q].disk) =>
            /\ run[p].admitted = run[q].admitted
            /\ file.kind = "json"
            /\ file.sent = run[p].admitted + 1
            /\ \E w \in {p, q} :
                  /\ file = Json(run[w].state)
                  /\ \A o \in {p, q} \ {w} :
                        \A i \in TopIds(run[o]) \ TopIds(run[w]) :
                            CdGet(file.cooldown, i) =
                                CdGet(RolloverState(run[w].loaded, run[w].today).cooldown, i)

C16_Witness ==
    /\ \A p \in RunIds : run[p].exit = "signal" /\ run[p].pc = "idle"
    /\ run[1].disk = run[2].disk
    /\ run[1].disk.kind = "json"
    /\ TopIds(run[1]) = {"B"}
    /\ TopIds(run[2]) = {"A"}
    /\ outbox[DateOf(now)].sameDay >= 2
    /\ file.sent = run[1].disk.sent + 1
    /\ CdGet(file.cooldown, "B") = None
    /\ CdGet(file.cooldown, "A") = CooldownStamp(now)

====
